---- MODULE Spec2Model ----
(***************************************************************************)
(* TransUNetProcess (src/TransUNet_process.py): one task object holding a  *)
(* cached configuration, model and colour map, its parameter object, the   *)
(* module-global random generator and the three outputs.  run() is one     *)
(* step; the host changes the parameters and asks for updates in between.  *)
(***************************************************************************)
EXTENDS Integers, Sequences, FiniteSets, TLC

VARIABLES
    cfg,        \* self.cfg: None or the loaded ConfigDict
    classes,    \* self.classes: None or the list of class names
    model,      \* self.model: None or the network object
    colors,     \* self.colors: None or the colour map (list of colours)
    update,     \* param.update: "unset" (no attribute), "true" or "false"
    configFile, \* param.configFile
    modelFile,  \* param.modelFile
    rng,        \* the global generator of module random
    outputs,    \* what outputs 0, 1 and 2 of the task hold
    lastRun     \* history: what the latest run() saw and did

vars == <<cfg, classes, model, colors, update, configFile, modelFile, rng,
          outputs, lastRun>>

\* ---------------------------------------------------------------- bounds
\* Largest height and width of an input image.
MaxDim == 2
\* Largest number of classes the legend is drawn for in LegendSpec.
MaxLegendClasses == 101

\* ------------------------------------------------------------- optionals
\* Python's None and "a value": <<>> and <<v>>.
None == <<>>
Some(v) == <<v>>
Val(o) == o[1]

Min(a, b) == IF a <= b THEN a ELSE b

\* --------------------------------------------------------- random, colours
Seed == 10

\* random.randint(0, 255) after random.seed(10): the first draws of CPython's
\* generator, in order.
SeededDraws ==
    <<
       16, 219, 247, 7, 105, 236, 251, 142, 82, 17, 250, 167, 38, 127, 184, 22, 215, 71, 181, 195, 215, 145, 134, 233,
       89, 155, 185, 68, 233, 122, 225, 192, 22, 2, 120, 68, 99, 155, 187, 122, 160, 230, 223, 240, 33, 166, 80, 114,
       211, 122, 18, 16, 254, 154, 36, 41, 76, 196, 191, 76, 57, 49, 226, 85, 97, 178, 221, 212, 228, 125, 140, 73,
       91, 61, 136, 233, 154, 84, 89, 90, 245, 177, 167, 222, 114, 2, 22, 169, 163, 124, 40, 134, 229, 207, 81, 199,
       253, 123, 139, 247, 255, 32, 85, 250, 236, 205, 69, 215, 178, 198, 250, 84, 225, 50, 212, 18, 1, 224, 33, 25,
       179, 47, 77, 55, 232, 248, 71, 234, 223, 228, 175, 132, 234, 216, 168, 78, 121, 165, 16, 100, 245, 12, 59, 151,
       222, 126, 148, 45, 23, 54, 146, 83, 244, 72, 184, 205, 98, 179, 93, 40, 99, 218, 106, 49, 157, 237, 216, 229,
       106, 136, 186, 59, 3, 107, 217, 209, 195, 102, 35, 216, 45, 28, 178, 130, 184, 233, 217, 99, 144, 238, 150, 255,
       134, 207, 226, 174, 178, 141, 247, 228, 244, 245, 42, 187, 207, 86, 212, 33, 156, 8, 167, 164, 37, 203, 191, 144,
       95, 123, 86, 157, 48, 27, 112, 37, 215, 98, 224, 8, 200, 103, 173, 97, 167, 24, 25, 18, 187, 203, 166, 87,
       80, 60, 176, 84, 15, 178, 45, 203, 224, 178, 30, 74, 227, 241, 231, 226, 89, 181, 216, 175, 234, 198, 99, 49,
       221, 78, 21, 95, 97, 219, 184, 192, 25, 26, 84, 159, 114, 25, 90, 51, 184, 95, 154, 21, 202, 219, 39, 176,
       99, 251, 83, 86, 207, 239, 168, 19, 88, 90, 215, 78, 200, 48, 203, 60, 120, 54, 216, 159, 148, 50, 176, 243
    >>

\* The k-th draw (k >= 1) of the generator seeded with s.  Only the stream of
\* seed 10 is tabulated; any other stream is a different fixed one.
Draw(s, k) ==
    IF s = Seed /\ k <= Len(SeededDraws) THEN SeededDraws[k]
    ELSE (151 * k + 89 * s + 7) % 256

\* The generator left as it is: no seeding at the start of run().
Reseed_Skipped(r) == r

\* random.seed(10)
Reseed(r) == [seed |-> Seed, pos |-> 0]

\* random.randint(0, 255): the value drawn in generator state r.
RandInt(r) == Draw(r.seed, r.pos + 1)

\* The generator after n draws.
Advance(r, n) == [r EXCEPT !.pos = @ + n]

\* The colour map built for n class names with the generator in state r:
\* [[0, 0, 0]] then, for i in range(n - 1), three draws and alpha 255.
ColorMap(r, n) ==
    <<  <<0, 0, 0>>  >> \o
    [i \in 1..(IF n > 1 THEN n - 1 ELSE 0) |->
        << RandInt(Advance(r, 3 * (i - 1))),
           RandInt(Advance(r, 3 * (i - 1) + 1)),
           RandInt(Advance(r, 3 * (i - 1) + 2)),
           255 >>]

\* --------------------------------------------------------------- legend
img_h == 1000
img_w == 1000
max_height == 100
offset_x == 10
offset_y == 5
interline == 5

rectangle_height(ncolors) == Min(max_height, img_h \div ncolors)
rectangle_width == img_w \div 3

\* The rectangle and text cv2 is asked to draw for entry i (0-based) of the
\* colour map; pt1 = (left, top), pt2 = (right, bottom).
LegendEntry(i, cols, names) ==
    LET rh == rectangle_height(Len(cols)) IN
    [top    |-> i * rh + offset_y + interline,
     bottom |-> (i + 1) * rh + offset_y - interline,
     left   |-> offset_x,
     right  |-> offset_x + rectangle_width,
     color  |-> cols[i + 1],
     text   |-> names[i + 1],
     text_y |-> (i + 1) * rh + offset_y - interline - rh \div 3]

\* draw_legend(): one entry per colour; self.classes[i] raises when the colour
\* map is longer than the class list.
LegendRaises(cols, names) == Len(cols) > Len(names)

draw_legend(cols, names) ==
    [k \in 1..Len(cols) |-> LegendEntry(k - 1, cols, names)]

\* ------------------------------------------------- files, images, tensors
\* The parameter values the host gives: "" is TransUNetParam's default.
ConfigPaths == {"", "a.yaml", "b.yaml"}
ModelPaths == {"", "w.pth"}

ClassNames(n) == [i \in 1..n |-> ToString(i - 1)]

\* What yaml.load reads from a configuration file when it has all its keys
\* (src: the file it was read from).
FileCfg(path) ==
    IF path = "a.yaml"
    THEN [src |-> path, img_size |-> 224, n_classes |-> 3, class_names |-> Some(ClassNames(3)),
          pretrained_path |-> Some("R50+ViT-B_16.npz")]
    ELSE [src |-> path, img_size |-> 256, n_classes |-> 2, class_names |-> Some(ClassNames(2)),
          pretrained_path |-> None]

\* Input images: a numpy array's shape and, per channel, the value its pixels
\* have (a uniform image stays uniform under resizing).
Pixels == { <<255, 128, 7>> }
\* Colour images of every height and width up to MaxDim.
ColourImages == [shape : {<<h, w, 3>> : h \in 1..MaxDim, w \in 1..MaxDim}, px : Pixels]
\* A square colour image and a two-dimensional (single-channel) array.
SquareImage == [shape |-> <<MaxDim, MaxDim, 3>>, px |-> <<255, 128, 7>>]
GreyImage == [shape |-> <<MaxDim, MaxDim>>, px |-> <<255, 128, 7>>]

\* What the environment does to one run: whether the weight file exists, and
\* the one external call that raises if the run comes to it (a run ends at
\* its first exception): opening and parsing the configuration file, reading class_names
\* from it, the network constructor, load_state_dict, the forward pass, the
\* numpy/cv2 calls of the legend.
Faults ==
    {"none", "config_load", "class_names", "constructor", "load_state_dict",
     "forward", "legend"}
Envs == [fault : Faults, isfile : BOOLEAN]

\* Tensor values are kept in thousandths: 123.675 is 123675.
mean == <<123675, 116280, 103530>>
std == <<58395, 57120, 57375>>

\* t.sub_(m).div_(s) on one value.
SubDiv(x, m, s) == ((x - m) * 1000) \div s

\* Normalize.__call__: zip(image, mean, std) pairs the entries of the FIRST
\* axis of image with the means and deviations; each such entry is changed in
\* place as a whole.
Normalize(image, mn, sd) ==
    LET zipLen == Min(Len(image), Min(Len(mn), Len(sd))) IN
    [k \in 1..Len(image) |->
        IF k <= zipLen
        THEN [c \in 1..Len(image[k]) |-> SubDiv(image[k][c], mn[k], sd[k])]
        ELSE image[k]]

\* torch.tensor([srcImage]).permute(0,3,1,2).float() then Resize: a batch of
\* one image, channels first.
ToTensor(img) == << [c \in 1..3 |-> img.px[c] * 1000] >>

\* The tensor handed to self.model for image img under configuration c.
Preprocess(img, c) ==
    IF c.pretrained_path # None THEN Normalize(ToTensor(img), mean, std)
    ELSE ToTensor(img)

NotOne(d) == d # 1
\* Tensor.squeeze(): every axis of size 1 is removed.
Squeeze(shape) == SelectSeq(shape, NotOne)

\* Shape of the label map set on output 0 for an image of height h, width w:
\* argmax(keepdim) gives (1, 1, S, S), Resize((h, w)) gives (1, 1, h, w).
PredShape(h, w) == Squeeze(<<1, 1, h, w>>)

\* Python truth of param.update when the attribute exists.
Truthy(u) == u = "true"

\* ------------------------------------------------------------- run()
\* The running state of one call of run(): the fields of self and param it
\* reads and writes, the outputs, the exception raised so far ("none" while
\* none is), and what the call has done.
Raise(s, e) == [s EXCEPT !.err = e]

\* The configuration loaded whenever a path is given, cached or not.
LoadConfig_IgnoreCache(s, path, e) ==
    IF path # "" THEN
        IF e.fault = "config_load" THEN [s EXCEPT !.err = "config_load"]
        ELSE [s EXCEPT !.cfg = Some(FileCfg(path)),
                       !.classes = FileCfg(path).class_names,
                       !.reloaded = TRUE]
    ELSE s

\* Lines 111-115.  param.update is read only when self.cfg is not None (or
\* short-circuits); reading an attribute that was never set raises.
\* reloaded: this run assigned a new object to self.cfg.
LoadConfig(s, path, e) ==
    IF s.cfg # None /\ s.update = "unset" THEN Raise(s, "update_attr")
    ELSE IF (s.cfg = None \/ Truthy(s.update)) /\ path # "" THEN
        IF e.fault = "config_load" THEN Raise(s, "config_load")
        ELSE IF e.fault = "class_names"
        THEN Raise([s EXCEPT !.cfg = Some([FileCfg(path) EXCEPT !.class_names = None]),
                             !.reloaded = TRUE],
                   "class_names")
        ELSE [s EXCEPT !.cfg = Some(FileCfg(path)),
                       !.classes = FileCfg(path).class_names,
                       !.reloaded = TRUE]
    ELSE s

\* Lines 117-128.  self.model is assigned as soon as the constructor returns;
\* the weights are loaded into it and eval() is called afterwards.
\* rebuilt: this run assigned a new object to self.model; the model keeps the
\* configuration file it was built from.
BuildModel(s, mpath, e) ==
    IF s.err # "none" THEN s
    ELSE IF s.model # None /\ s.update = "unset" THEN Raise(s, "update_attr")
    ELSE IF (s.model = None \/ Truthy(s.update)) /\ s.cfg # None THEN
        IF e.fault = "constructor" THEN Raise(s, "constructor")
        ELSE
            LET built == [cfg |-> Val(s.cfg).src, weights |-> "init", eval |-> FALSE]
                isfile == mpath # "" /\ e.isfile
                s1 == [s EXCEPT !.model = Some(built), !.rebuilt = TRUE]
            IN  IF isfile /\ e.fault = "load_state_dict" THEN Raise(s1, "load_state_dict")
                ELSE [s1 EXCEPT !.model =
                        Some([built EXCEPT !.weights = IF isfile THEN "loaded" ELSE "init",
                                           !.eval = TRUE])]
    ELSE s

\* Lines 131-158: unpack the shape, preprocess, forward pass, decode, resize
\* back, squeeze, and set the label map on output 0.
Infer(s, img, e) ==
    IF s.err # "none" THEN s
    ELSE IF Len(img.shape) # 3 THEN Raise(s, "shape")
    ELSE
        LET s1 == [s EXCEPT !.fed = Some(Preprocess(img, Val(s.cfg)))]
        IN  IF e.fault = "forward" THEN Raise(s1, "forward")
            ELSE [s1 EXCEPT !.outputs.mask = Some(PredShape(img.shape[1], img.shape[2])),
                            !.set = @ \cup {"mask"}]

\* Lines 160-169: (re)build the colour map when there is none or an update is
\* asked for, set it on output 1, forward the input image to output 1.
BuildColors(s, img) ==
    IF s.err # "none" THEN s
    ELSE IF s.colors # None /\ s.update = "unset" THEN Raise(s, "update_attr")
    ELSE
        LET s1 ==
              IF s.colors = None \/ Truthy(s.update) THEN
                  IF s.classes = None THEN Raise(s, "colors")
                  ELSE LET n == Len(Val(s.classes))
                           cm == ColorMap(s.rng, n)
                       IN  [s EXCEPT !.colors = Some(cm),
                                     !.rng = Advance(s.rng, 3 * (Len(cm) - 1)),
                                     !.recolored = TRUE,
                                     !.outputs.colorMap = Some(cm),
                                     !.set = @ \cup {"colorMap"}]
              ELSE s
        IN  IF s1.err # "none" THEN s1
            ELSE [s1 EXCEPT !.outputs.image = Some(img.shape), !.set = @ \cup {"image"}]

\* Lines 171-172: draw the legend, set it on output 2, clear param.update.
LegendAndDone(s, e) ==
    IF s.err # "none" THEN s
    ELSE IF LegendRaises(Val(s.colors), Val(s.classes)) \/ e.fault = "legend"
    THEN Raise(s, "legend")
    ELSE [s EXCEPT !.outputs.legend = Some(draw_legend(Val(s.colors), Val(s.classes))),
                   !.set = @ \cup {"legend"},
                   !.update = "false"]

\* param.update cleared at the end of every run, inference or not.
WithImage_AlwaysClears(s, img, e) ==
    IF s.err = "none" /\ s.model # None /\ img # None
    THEN LegendAndDone(BuildColors(Infer(s, Val(img), e), Val(img)), e)
    ELSE IF s.err = "none" THEN [s EXCEPT !.update = "false"] ELSE s

\* Line 130 on: the part of run() done only with a model and an input image.
WithImage(s, img, e) ==
    IF s.err = "none" /\ s.model # None /\ img # None
    THEN LegendAndDone(BuildColors(Infer(s, Val(img), e), Val(img)), e)
    ELSE s

\* The state run() starts in: line 98 seeds the generator before anything else.
Start ==
    [cfg |-> cfg, classes |-> classes, model |-> model, colors |-> colors,
     update |-> update, rng |-> Reseed(rng), outputs |-> outputs,
     err |-> "none", reloaded |-> FALSE, rebuilt |-> FALSE,
     recolored |-> FALSE, set |-> {}, fed |-> None]

\* run() on input img (None when the input holds no image) in environment e.
RunResult(img, e) ==
    WithImage(BuildModel(LoadConfig(Start, configFile, e), modelFile, e), img, e)

NoOutputs == [mask |-> None, colorMap |-> None, image |-> None, legend |-> None]

\* lastRun before any run.  entry: the parameters run() started with; again:
\* the run before it started with the same configFile and modelFile, and
\* param.update was False at the start of both.
NoRun ==
    [ran |-> FALSE, again |-> FALSE,
     entry |-> [update |-> "unset", configFile |-> "", modelFile |-> ""],
     hasImage |-> FALSE, err |-> "none", reloaded |-> FALSE, rebuilt |-> FALSE,
     recolored |-> FALSE, set |-> {}, fed |-> None]

\* __init__: nothing cached; the parameters are TransUNetParam's defaults or a
\* copy of the ones handed in.  The generator is as the interpreter left it.
Init ==
    /\ cfg = None /\ classes = None /\ model = None /\ colors = None
    /\ update \in {"unset", "true", "false"}
    /\ configFile \in ConfigPaths
    /\ modelFile \in ModelPaths
    /\ rng = [seed |-> 0, pos |-> 0]
    /\ outputs = NoOutputs
    /\ lastRun = NoRun

Run(img, e) ==
    \E r \in {RunResult(img, e)} :
    /\ cfg' = r.cfg
    /\ classes' = r.classes
    /\ model' = r.model
    /\ colors' = r.colors
    /\ update' = r.update
    /\ rng' = r.rng
    /\ outputs' = r.outputs
    /\ lastRun' =
         [ran |-> TRUE,
          again |-> /\ lastRun.ran
                    /\ lastRun.entry.configFile = configFile
                    /\ lastRun.entry.modelFile = modelFile
                    /\ lastRun.entry.update = "false"
                    /\ update = "false",
          entry |-> [update |-> update, configFile |-> configFile,
                     modelFile |-> modelFile],
          hasImage |-> img # None,
          err |-> r.err, reloaded |-> r.reloaded, rebuilt |-> r.rebuilt,
          recolored |-> r.recolored, set |-> r.set, fed |-> r.fed]
    /\ UNCHANGED <<configFile, modelFile>>

\* TransUNetParam.setParamMap
setParamMap(c, m) ==
    /\ configFile' = c
    /\ modelFile' = m
    /\ UNCHANGED <<cfg, classes, model, colors, update, rng, outputs, lastRun>>

\* The host asks for a reload: param.update = True.
RequestUpdate ==
    /\ update' = "true"
    /\ UNCHANGED <<cfg, classes, model, colors, configFile, modelFile, rng, outputs,
                   lastRun>>

\* The inputs and environments of Spec: every fault, with no image, a
\* square colour image or a single-channel array on the input.
Inputs == {None, Some(SquareImage), Some(GreyImage)}

Next ==
    \/ \E img \in Inputs, e \in Envs : Run(img, e)
    \/ \E c \in ConfigPaths, m \in ModelPaths : setParamMap(c, m)
    \/ RequestUpdate

Spec == Init /\ [][Next]_vars

\* ImageSpec: colour images of every size, in an environment where the files
\* are readable and no external call raises.
Calm == [fault : {"none"}, isfile : BOOLEAN]

ImageNext ==
    \/ \E i \in ColourImages, e \in Calm : Run(Some(i), e)
    \/ \E c \in ConfigPaths, m \in ModelPaths : setParamMap(c, m)
    \/ RequestUpdate

ImageSpec == Init /\ [][ImageNext]_vars

\* LegendSpec: draw_legend on the colour map and class names of a
\* configuration of n classes, for every n up to MaxLegendClasses.
LegendCfg(n) ==
    [src |-> "a.yaml", img_size |-> 224, n_classes |-> n,
     class_names |-> Some(ClassNames(n)), pretrained_path |-> None]

LegendInit ==
    \E n \in 1..MaxLegendClasses :
        /\ cfg = Some(LegendCfg(n))
        /\ classes = Some(ClassNames(n))
        /\ model = Some([cfg |-> "a.yaml", weights |-> "init", eval |-> TRUE])
        /\ colors = Some(ColorMap([seed |-> Seed, pos |-> 0], n))
        /\ update = "false"
        /\ configFile = "a.yaml"
        /\ modelFile = ""
        /\ rng = [seed |-> Seed, pos |-> 3 * (n - 1)]
        /\ outputs = [NoOutputs EXCEPT !.colorMap = colors]
        /\ lastRun = NoRun

\* Line 171: graph_output.setImage(self.draw_legend())
SetLegend ==
    /\ colors # None /\ classes # None
    /\ ~LegendRaises(Val(colors), Val(classes))
    /\ outputs' = [outputs EXCEPT !.legend = Some(draw_legend(Val(colors), Val(classes)))]
    /\ UNCHANGED <<cfg, classes, model, colors, update, configFile, modelFile, rng,
                   lastRun>>

LegendSpec == LegendInit /\ [][SetLegend]_vars

\* ------------------------------------------------------------ properties
\* A step of run(): the parameters keep their paths and param.update is left
\* alone or cleared (the host's steps change a path or set param.update).
RunStep ==
    /\ configFile' = configFile
    /\ modelFile' = modelFile
    /\ (update' = update \/ update' = "false")

BuildFaults == {"config_load", "class_names", "constructor"}

C2_ForcedRebuild ==
    [][(/\ RunStep
        /\ model # None
        /\ (update = "true" \/ configFile # Val(model).cfg)
        /\ "mask" \in lastRun'.set)
       => (lastRun'.reloaded /\ lastRun'.rebuilt)]_vars

\* C3: a run in which building the model fails (the constructor or
\* load_state_dict raises) leaves self.model exactly as it was before the run.
C3_FailedBuildKeepsModel ==
    [][(RunStep /\ lastRun'.err \in {"constructor", "load_state_dict"})
       => model' = model]_vars

\* C4: a run that ends with an error has set none of its outputs.
C4_NoOutputsOnFailure ==
    (lastRun.ran /\ lastRun.err # "none") => lastRun.set = {}

\* C5: the label map set on output 0 for an input image of height H and width
\* W (the image forwarded to output 1 by the same run) has shape (H, W).
C5_MaskShape ==
    ({"mask", "image"} \subseteq lastRun.set)
        => outputs.mask = Some(<<Val(outputs.image)[1], Val(outputs.image)[2]>>)

\* A batch of one image of per-channel values px, each channel k normalised
\* with the k-th mean and the k-th standard deviation.
PerChannel(px) == << [k \in 1..3 |-> SubDiv(px[k] * 1000, mean[k], std[k])] >>

\* C6: when the configuration's pretrained path is set, every channel k of
\* the tensor fed to the model is the image's channel k normalised with the
\* k-th mean and the k-th standard deviation.
C6_PerChannelNormalization ==
    (lastRun.fed # None /\ cfg # None /\ Val(cfg).pretrained_path # None)
        => \E px \in Pixels : lastRun.fed = Some(PerChannel(px))

\* The colour map of n classes: black, then the draws of the generator
\* freshly seeded with 10, three per class in class order, with alpha 255.
SeededColors(n) ==
    [i \in 1..n |->
        IF i = 1 THEN <<0, 0, 0>>
        ELSE << SeededDraws[3 * (i - 2) + 1], SeededDraws[3 * (i - 2) + 2],
                SeededDraws[3 * (i - 2) + 3], 255 >>]

\* C7: whenever a colour map is held, it is the map of its number of classes
\* drawn from the generator freshly seeded with 10, whatever was drawn in
\* earlier runs: every build of n classes gives the same sequence.
C7_ColorMapDeterminism ==
    colors # None => Val(colors) = SeededColors(Len(Val(colors)))

\* The colour map was built again, for another number of classes, in a run
\* that came after the one whose legend still is on output 2.
C7_Witness ==
    /\ lastRun.recolored
    /\ colors # None /\ Len(Val(colors)) > 1
    /\ outputs.legend # None
    /\ Len(Val(outputs.legend)) # Len(Val(colors))

\* C8: whenever a colour map is held, its length is the number of classes of
\* the loaded configuration.
C8_ColorsMatchConfig ==
    (colors # None /\ cfg # None) => Len(Val(colors)) = Val(cfg).n_classes

\* C9: for n classes the legend has n rectangles of height
\* min(100, 1000 div n), stacked in class order, each with its top row above
\* its bottom row and both inside the rows 0..999 of the raster.
C9_LegendLayout ==
    outputs.legend # None =>
        LET legend == Val(outputs.legend)
            n == Len(Val(colors))
            rh == Min(100, 1000 \div n)
        IN  /\ Len(legend) = n
            /\ \A k \in 1..n :
                /\ legend[k].top = (k - 1) * rh + offset_y + interline
                /\ legend[k].bottom = k * rh + offset_y - interline
                /\ 0 <= legend[k].top
                /\ legend[k].top < legend[k].bottom
                /\ legend[k].bottom <= img_h - 1
                /\ k > 1 => legend[k - 1].bottom < legend[k].top

====
